---- MODULE Spec2Model ----
(***************************************************************************)
(* DensePolygonClassStatistics (src/app/otbDensePolygonClassStatistics.cxx) *)
(*                                                                         *)
(* The application validates its parameters (DoUpdateParameters), then     *)
(* DoExecute rasterizes the input geometries twice (geometry ID, class     *)
(* code), streams each label raster tile by tile through a statistics      *)
(* filter whose input image is the no-data mask of the support image,      *)
(* copies the two label population maps, erases the no-data key from the   *)
(* copies and hands them to the XML statistics writer.                     *)
(*                                                                         *)
(* Library calls are modelled at their call site by what the call does:    *)
(*  - VectorDataToLabelImageFilter fills the output with the background    *)
(*    value and burns the geometries in input order (a later geometry      *)
(*    overwrites an earlier one); a geometry without the burn attribute    *)
(*    gets the default burn value, which is then incremented;              *)
(*  - ImageToNoDataMaskFilter gives 1 for a usable pixel, 0 for no-data;   *)
(*  - StreamingStatisticsMapFromLabelImageFilter visits every pixel of     *)
(*    every tile and, per label of the LABEL image, counts the pixel       *)
(*    (label population) and adds the INPUT image's value (the running     *)
(*    sum behind the mean); the input image here is the mask;              *)
(*  - the streamer splits the largest region into a grid of tiles.         *)
(***************************************************************************)
EXTENDS Integers, Sequences, FiniteSets, TLC

(* ----------------------------- bounds --------------------------------- *)
\* raster extent, in pixels
Width == 2
Height == 2
\* most geometries in the input vector data
MaxGeoms == 2
\* most tiles of a raster whose tiles are accumulated into partial maps
MaxMergeSplits == 4
\* class codes carried by the class field
ClassCodes == {3, 5}
\* width of the label pixel type. The program's is 32 bits; TLC's integers
\* end at 2^31 - 1, and all the program uses of the width is the type's
\* largest value, so a narrower type stands for it
LabelBits == 16

(* --------------------------- constants -------------------------------- *)
\* itk::NumericTraits<LabelImageType::ValueType>::max()
intNoData == 2^LabelBits - 1
\* SetDefaultBurnValue(0)
DefaultBurnValue == 0

VARIABLES
  pc,            \* position in DoUpdateParameters / DoExecute
  out,           \* parameter "out": a path, a sequence of characters
  fieldSelected, \* whether GetSelectedItems("field") is non-empty
  tileSize,      \* <<w, h>> of a tile, what the streamer derives from "ram"
  rasterOpened,  \* GetParameterImage("in") was called
  geoms,         \* the reprojected geometries, in input order
  noDataCols,    \* columns x < noDataCols of the support image are no-data
  fidStats,      \* m_FIDStatsFilter
  classStats,    \* m_ClassStatsFilter
  fidMap,        \* local copy fidMap
  classMap,      \* local copy classMap
  written,       \* the files the writer wrote
  err,           \* the fatal errors raised, in order
  mergeSel,      \* (merge specification) the label raster accumulated
  todo,          \* (merge specification) tiles not yet accumulated
  partial,       \* (merge specification) the two partial population maps
  merged         \* (merge specification) the merged map, once merged

vars == <<pc, out, fieldSelected, tileSize, rasterOpened, geoms, noDataCols,
          fidStats, classStats, fidMap, classMap, written, err,
          mergeSel, todo, partial, merged>>

mergeVars == <<mergeSel, todo, partial, merged>>

(* ------------------------------ paths --------------------------------- *)
dotXml == <<".", "x", "m", "l">>

\* the values given to parameter "out"
OutPaths ==
  { <<"s", ".", "x", "m", "l">>,
    <<"s", ".", "X", "m", "L">>,
    <<"s", ".", "j", "s">>,
    <<"s">>,
    <<"s", ".", "x", "m", "l", ".", "j">>,
    <<"d", ".", "x", "m", "l", "/", "s">>,
    <<"d", ".", "j", "/", "s", ".", "X", "M", "L">> }

HasValue(p) == Len(p) > 0

ToLowerIdentity(c) == c

\* tolower, on the letters the paths use
ToLower(c) ==
  CASE c = "X" -> "x"
    [] c = "M" -> "m"
    [] c = "L" -> "l"
    [] OTHER -> c

\* itksys::SystemTools::LowerCase
LowerCase(s) == [i \in 1..Len(s) |-> ToLower(s[i])]

Positions(s, c) == {i \in 1..Len(s) : s[i] = c}

Max(S) == CHOOSE x \in S : \A y \in S : y <= x

\* itksys::SystemTools::GetFilenameName: what follows the last "/"
GetFilenameName(p) ==
  IF Positions(p, "/") = {} THEN p
  ELSE SubSeq(p, Max(Positions(p, "/")) + 1, Len(p))

\* itksys::SystemTools::GetFilenameLastExtension: from the last "." of the
\* file name to its end, "" when the name has no "."
GetFilenameLastExtension(p) ==
  LET name == GetFilenameName(p)
  IN  IF Positions(name, ".") = {} THEN <<>>
      ELSE SubSeq(name, Max(Positions(name, ".")), Len(name))

(* ------------------------- population maps ---------------------------- *)
\* std::map<label, count>: a function whose domain is the set of keys
EmptyMap == [k \in {} |-> 0]

Count(m, k) == IF k \in DOMAIN m THEN m[k] ELSE 0

\* the filter's update of one map entry: created when absent, added to
\* when present
Add(m, k, n) ==
  IF k \in DOMAIN m THEN [m EXCEPT ![k] = @ + n] ELSE m @@ (k :> n)

EraseNothing(m, k) == m

\* std::map::erase(key)
Erase(m, k) == [j \in DOMAIN m \ {k} |-> m[j]]

RECURSIVE SumOver(_, _)
SumOver(m, K) ==
  IF K = {} THEN 0
  ELSE LET k == CHOOSE j \in K : TRUE
       IN  m[k] + SumOver(m, K \ {k})

Total(m) == SumOver(m, DOMAIN m)

(* ------------------------------ rasters ------------------------------- *)
Cells == (0..(Width - 1)) \X (0..(Height - 1))

\* a geometry covers the columns x0..x1 of the grid, from its left border
\* or up to its right border, and carries a class
Geometries ==
  { g \in [x0 : 0..(Width - 1), x1 : 0..(Width - 1), cls : ClassCodes] :
      g.x0 <= g.x1 /\ (g.x0 = 0 \/ g.x1 = Width - 1) }

\* the vector data: at most MaxGeoms geometries, in input order
GeometryLists == UNION { [1..n -> Geometries] : n \in 0..MaxGeoms }

Covers(g, c) == g.x0 <= c[1] /\ c[1] <= g.x1

\* the value burnt for the i-th geometry: the class field, or, for the
\* attribute "________" no geometry has, the default burn value, which
\* the filter increments after each use
BurnValue(sel, g, i) ==
  IF sel = "class" THEN g.cls ELSE DefaultBurnValue + (i - 1)

BurnPixelKeepFirst(old, covered, value) ==
  IF covered /\ old = intNoData THEN value ELSE old

\* burning one geometry into one pixel: a covered pixel takes the value
BurnPixel(old, covered, value) == IF covered THEN value ELSE old

RECURSIVE BurnFrom(_, _, _, _, _)
BurnFrom(gs, sel, c, i, v) ==
  IF i > Len(gs) THEN v
  ELSE BurnFrom(gs, sel, c, i + 1,
                BurnPixel(v, Covers(gs[i], c), BurnValue(sel, gs[i], i)))

\* a pixel of the label raster: the background value, then the geometries
\* burnt in input order
LabelAt(gs, sel, c) == BurnFrom(gs, sel, c, 1, intNoData)

\* a pixel of the no-data mask: 1 when usable, 0 when no-data
MaskAt(nd, c) == IF c[1] < nd THEN 0 ELSE 1

NoDataChoices == {0, (Width + 1) \div 2}

(* ------------------------------ streaming ----------------------------- *)
TileSizes == (1..Width) \X (1..Height)

Min(a, b) == IF a < b THEN a ELSE b

SplitsX(ts) == (Width + ts[1] - 1) \div ts[1]
SplitsY(ts) == (Height + ts[2] - 1) \div ts[2]

NumberOfSplits(ts) == SplitsX(ts) * SplitsY(ts)

GetSplitMixedAxes(i, ts) ==
  LET x0 == (i % SplitsX(ts)) * ts[1]
      y0 == (i \div SplitsY(ts)) * ts[2]
  IN  [x0 |-> x0, y0 |-> y0,
       w |-> IF x0 < Width THEN Min(ts[1], Width - x0) ELSE 0,
       h |-> IF y0 < Height THEN Min(ts[2], Height - y0) ELSE 0]

\* the i-th tile (0-based, row-major) of the largest region, clipped to it
GetSplit(i, ts) ==
  LET x0 == (i % SplitsX(ts)) * ts[1]
      y0 == (i \div SplitsX(ts)) * ts[2]
  IN  [x0 |-> x0, y0 |-> y0,
       w |-> IF x0 < Width THEN Min(ts[1], Width - x0) ELSE 0,
       h |-> IF y0 < Height THEN Min(ts[2], Height - y0) ELSE 0]

\* the pixels of a region in the order the region iterator visits them
RegionCells(r) ==
  [k \in 1..(r.w * r.h) |->
     <<r.x0 + ((k - 1) % r.w), r.y0 + ((k - 1) \div r.w)>>]

\* the filter's accumulators and, for the proof, how often each pixel
\* was visited and how many tiles were consumed
EmptyStats ==
  [pop |-> EmptyMap, sum |-> EmptyMap, split |-> 0,
   seen |-> [c \in Cells |-> 0]]

\* one pixel: the label's population grows by one and the input image's
\* value is added to the label's running sum
AddPixel(acc, label, value, c) ==
  [acc EXCEPT !.pop = Add(acc.pop, label, 1),
              !.sum = Add(acc.sum, label, value),
              !.seen = [acc.seen EXCEPT ![c] = @ + 1]]

RECURSIVE AccumulateCells(_, _, _, _, _)
AccumulateCells(acc, cs, gs, sel, nd) ==
  IF cs = <<>> THEN acc
  ELSE AccumulateCells(
         AddPixel(acc, LabelAt(gs, sel, Head(cs)), MaskAt(nd, Head(cs)), Head(cs)),
         Tail(cs), gs, sel, nd)

AccumulateSplitAfterReset(acc, i, ts, gs, sel, nd) ==
  AccumulateCells([acc EXCEPT !.pop = EmptyMap, !.sum = EmptyMap],
                  RegionCells(GetSplit(i, ts)), gs, sel, nd)

\* the filter's pass over the pixels of tile i of its two inputs
AccumulateSplit(acc, i, ts, gs, sel, nd) ==
  AccumulateCells(acc, RegionCells(GetSplit(i, ts)), gs, sel, nd)

ProcessTileAfterReset(acc, ts, gs, sel, nd) ==
  [AccumulateSplitAfterReset(acc, acc.split, ts, gs, sel, nd)
     EXCEPT !.split = acc.split + 1]

\* the streamer hands the filter the next tile, in the order of the splits
ProcessTile(acc, ts, gs, sel, nd) ==
  [AccumulateSplit(acc, acc.split, ts, gs, sel, nd)
     EXCEPT !.split = acc.split + 1]

\* a whole streaming pass: every split, in order, from the reset filter
RECURSIVE RunPass(_, _, _, _, _)
RunPass(acc, ts, gs, sel, nd) ==
  IF acc.split >= NumberOfSplits(ts) THEN acc
  ELSE RunPass(ProcessTile(acc, ts, gs, sel, nd), ts, gs, sel, nd)

(* --------------------------- the application -------------------------- *)
NoFile == <<>>

Init ==
  /\ pc = "updateParameters"
  /\ out \in OutPaths
  /\ fieldSelected \in BOOLEAN
  /\ tileSize \in TileSizes
  /\ rasterOpened = FALSE
  /\ geoms = <<>>
  /\ noDataCols = 0
  /\ fidStats = EmptyStats
  /\ classStats = EmptyStats
  /\ fidMap = EmptyMap
  /\ classMap = EmptyMap
  /\ written = NoFile
  /\ err = <<>>
  /\ mergeSel = "fid"
  /\ todo = {}
  /\ partial = <<>>
  /\ merged = EmptyMap

\* otbAppLogFATAL: the message is logged and an exception ends the run
Fatal(msg) ==
  /\ err' = Append(err, msg)
  /\ pc' = "fatal"

\* DoUpdateParameters: the extension of "out" must be .xml
DoUpdateParameters ==
  /\ pc = "updateParameters"
  /\ IF HasValue(out) /\ LowerCase(GetFilenameLastExtension(out)) # dotXml
       THEN Fatal("wrong extension")
       ELSE pc' = "field" /\ err' = err
  /\ UNCHANGED <<out, fieldSelected, tileSize, rasterOpened, geoms, noDataCols,
                 fidStats, classStats, fidMap, classMap, written, mergeVars>>

CheckFieldLogOnly ==
  /\ pc = "field"
  /\ err' = IF fieldSelected THEN err ELSE Append(err, "no field")
  /\ pc' = "inputs"
  /\ UNCHANGED <<out, fieldSelected, tileSize, rasterOpened, geoms, noDataCols,
                 fidStats, classStats, fidMap, classMap, written, mergeVars>>

\* DoExecute: a class field must be selected
CheckField ==
  /\ pc = "field"
  /\ IF ~fieldSelected
       THEN Fatal("no field")
       ELSE pc' = "inputs" /\ err' = err
  /\ UNCHANGED <<out, fieldSelected, tileSize, rasterOpened, geoms, noDataCols,
                 fidStats, classStats, fidMap, classMap, written, mergeVars>>

\* DoExecute: the support image and the vector data are fetched, the vector
\* data reprojected, the rasterizers and the mask filter set up
GetInputs ==
  /\ pc = "inputs"
  /\ \E gs \in GeometryLists, nd \in NoDataChoices :
       /\ geoms' = gs
       /\ noDataCols' = nd
  /\ rasterOpened' = TRUE
  /\ pc' = "fidStats"
  /\ UNCHANGED <<out, fieldSelected, tileSize, fidStats, classStats,
                 fidMap, classMap, written, err, mergeVars>>

\* m_FIDStatsFilter->Update(), one tile of it
FIDStatsUpdate ==
  /\ pc = "fidStats"
  /\ fidStats.split < NumberOfSplits(tileSize)
  /\ fidStats' = ProcessTile(fidStats, tileSize, geoms, "fid", noDataCols)
  /\ pc' = IF fidStats'.split = NumberOfSplits(tileSize)
             THEN "classStats" ELSE "fidStats"
  /\ UNCHANGED <<out, fieldSelected, tileSize, rasterOpened, geoms, noDataCols,
                 classStats, fidMap, classMap, written, err, mergeVars>>

\* m_ClassStatsFilter->Update(), one tile of it
ClassStatsUpdate ==
  /\ pc = "classStats"
  /\ classStats.split < NumberOfSplits(tileSize)
  /\ classStats' = ProcessTile(classStats, tileSize, geoms, "class", noDataCols)
  /\ pc' = IF classStats'.split = NumberOfSplits(tileSize)
             THEN "erase" ELSE "classStats"
  /\ UNCHANGED <<out, fieldSelected, tileSize, rasterOpened, geoms, noDataCols,
                 fidStats, fidMap, classMap, written, err, mergeVars>>

\* an exception of the pipeline (an unreadable input, a tile that cannot
\* be produced) leaves DoExecute, whose filters are released with it
PipelineError ==
  /\ pc \in {"inputs", "fidStats", "classStats"}
  /\ Fatal(IF pc = "inputs" THEN "io" ELSE "io in " \o pc)
  /\ fidStats' = EmptyStats
  /\ classStats' = EmptyStats
  /\ UNCHANGED <<out, fieldSelected, tileSize, rasterOpened, geoms, noDataCols,
                 fidMap, classMap, written, mergeVars>>

\* the two population maps are copied and the no-data key erased
RemoveNoData ==
  /\ pc = "erase"
  /\ fidMap' = Erase(fidStats.pop, intNoData)
  /\ classMap' = Erase(classStats.pop, intNoData)
  /\ pc' = "write"
  /\ UNCHANGED <<out, fieldSelected, tileSize, rasterOpened, geoms, noDataCols,
                 fidStats, classStats, written, err, mergeVars>>

\* the writer gets the file name and the two maps, and writes
WriteStatistics ==
  /\ pc = "write"
  /\ written' = Append(written, [file |-> out,
                                 samplesPerClass |-> classMap,
                                 samplesPerVector |-> fidMap])
  /\ pc' = "done"
  /\ UNCHANGED <<out, fieldSelected, tileSize, rasterOpened, geoms, noDataCols,
                 fidStats, classStats, fidMap, classMap, err, mergeVars>>

Next ==
  \/ DoUpdateParameters
  \/ CheckField
  \/ GetInputs
  \/ FIDStatsUpdate
  \/ ClassStatsUpdate
  \/ PipelineError
  \/ RemoveNoData
  \/ WriteStatistics

Spec == Init /\ [][Next]_vars

(* ------------------- partial maps and their merge --------------------- *)
(* The tiles of one label raster are dealt, in any order, to two          *)
(* accumulators that each keep a partial population map; the two partial  *)
(* maps are then merged by key-wise summation.                            *)

\* key-wise summation of two population maps
MergeMaps(a, b) ==
  [k \in DOMAIN a \cup DOMAIN b |-> Count(a, k) + Count(b, k)]

InitMerge ==
  /\ pc = "partials"
  /\ out = dotXml
  /\ fieldSelected = TRUE
  /\ tileSize \in {ts \in TileSizes : NumberOfSplits(ts) <= MaxMergeSplits}
  /\ rasterOpened = TRUE
  /\ geoms \in GeometryLists
  /\ noDataCols = 0
  /\ fidStats = EmptyStats
  /\ classStats = EmptyStats
  /\ fidMap = EmptyMap
  /\ classMap = EmptyMap
  /\ written = NoFile
  /\ err = <<>>
  /\ mergeSel \in {"fid", "class"}
  /\ todo = 0..(NumberOfSplits(tileSize) - 1)
  /\ partial = <<EmptyStats, EmptyStats>>
  /\ merged = EmptyMap

\* one of the two accumulators takes any tile not yet accumulated
AccumulatePartial ==
  /\ pc = "partials"
  /\ \E w \in 1..2, i \in todo :
       /\ partial' = [partial EXCEPT
                        ![w] = AccumulateSplit(@, i, tileSize, geoms, mergeSel,
                                               noDataCols)]
       /\ todo' = todo \ {i}
  /\ UNCHANGED <<pc, out, fieldSelected, tileSize, rasterOpened, geoms,
                 noDataCols, fidStats, classStats, fidMap, classMap, written,
                 err, mergeSel, merged>>

\* every tile accumulated: the two partial maps are merged
MergePartials ==
  /\ pc = "partials"
  /\ todo = {}
  /\ merged' = MergeMaps(partial[1].pop, partial[2].pop)
  /\ pc' = "merged"
  /\ UNCHANGED <<out, fieldSelected, tileSize, rasterOpened, geoms,
                 noDataCols, fidStats, classStats, fidMap, classMap, written,
                 err, mergeSel, todo, partial>>

NextMerge == AccumulatePartial \/ MergePartials

SpecMerge == InitMerge /\ [][NextMerge]_vars

(* ------------------------------ claims -------------------------------- *)
\* the geometries that cover a pixel, and the last of them in input order
Covering(gs, c) == {i \in 1..Len(gs) : Covers(gs[i], c)}
InsideSomeGeometry(gs, c) == Covering(gs, c) # {}
LastCovering(gs, c) == Max(Covering(gs, c))
\* the validity mask is true at a pixel
PixelValid(nd, c) == c[1] >= nd

Finished == pc = "done" /\ Len(written) = 1
TheFile == written[1]

\* the valid pixels that carry label v in a label raster
ValidPixelsLabelled(gs, sel, nd, v) ==
  {c \in Cells : LabelAt(gs, sel, c) = v /\ PixelValid(nd, c)}

\* the values a geometry can burn, and with the background every label
BurnLabels(gs) ==
  ClassCodes \cup {BurnValue("fid", gs[i], i) : i \in 1..Len(gs)}
LabelsOf(gs) == {intNoData} \cup BurnLabels(gs)

\* C1: the two maps handed to the writer, samplesPerClass and
\* samplesPerVector, have no key equal to the no-data value, whether or
\* not the accumulated maps had it.
C1_NoSentinelInOutput ==
  /\ pc = "write" => intNoData \notin DOMAIN fidMap \cup DOMAIN classMap
  /\ \A i \in 1..Len(written) :
       /\ intNoData \notin DOMAIN written[i].samplesPerClass
       /\ intNoData \notin DOMAIN written[i].samplesPerVector

C1_Witness ==
  /\ Finished
  /\ intNoData \in DOMAIN fidStats.pop
  /\ intNoData \in DOMAIN classStats.pop
  /\ DOMAIN TheFile.samplesPerVector # {}

\* C2 (as claimed): a pixel increments the population of its label only
\* where the validity mask is true: at the end of a pass the count of every
\* label is the number of valid pixels carrying it, and a label carried
\* only by invalid pixels has no entry.
C2_OnlyValidPixelsCounted ==
  pc \in {"erase", "write", "done"} =>
    \A v \in BurnLabels(geoms) :
      /\ Count(fidStats.pop, v) =
           Cardinality(ValidPixelsLabelled(geoms, "fid", noDataCols, v))
      /\ Count(classStats.pop, v) =
           Cardinality(ValidPixelsLabelled(geoms, "class", noDataCols, v))
      /\ (v \in DOMAIN fidStats.pop =>
            ValidPixelsLabelled(geoms, "fid", noDataCols, v) # {})
      /\ (v \in DOMAIN classStats.pop =>
            ValidPixelsLabelled(geoms, "class", noDataCols, v) # {})

\* what the code does instead: every pixel of a label is counted, and the
\* mask's value goes to the label's running sum, which DoExecute never reads
PopulationCountsEveryPixel ==
  pc \in {"erase", "write", "done"} =>
    \A v \in LabelsOf(geoms) :
      /\ Count(fidStats.pop, v) =
           Cardinality({c \in Cells : LabelAt(geoms, "fid", c) = v})
      /\ Count(fidStats.sum, v) =
           Cardinality(ValidPixelsLabelled(geoms, "fid", noDataCols, v))
      /\ Count(classStats.pop, v) =
           Cardinality({c \in Cells : LabelAt(geoms, "class", c) = v})
      /\ Count(classStats.sum, v) =
           Cardinality(ValidPixelsLabelled(geoms, "class", noDataCols, v))

\* C3 (as claimed): the counts of samplesPerVector and of samplesPerClass
\* have the same sum, the number of pixels inside some geometry and valid.
C3_SumsAreValidCoveredPixels ==
  Finished =>
    /\ Total(TheFile.samplesPerVector) = Total(TheFile.samplesPerClass)
    /\ Total(TheFile.samplesPerVector) =
         Cardinality({c \in Cells : InsideSomeGeometry(geoms, c)
                                      /\ PixelValid(noDataCols, c)})

\* the part of C3 the code keeps: the two sums agree, on the number of
\* pixels inside some geometry
SumsAreCoveredPixels ==
  Finished =>
    /\ Total(TheFile.samplesPerVector) = Total(TheFile.samplesPerClass)
    /\ Total(TheFile.samplesPerVector) =
         Cardinality({c \in Cells : InsideSomeGeometry(geoms, c)})

\* the tile of the run whose memory budget holds the whole raster
WholeExtent == <<Width, Height>>

\* C4: the final maps do not depend on the tile size the memory budget
\* gives: whatever the tiles, the maps written are those of the run whose
\* single tile is the whole extent.
C4_TileSizeInvariance ==
  Finished =>
    /\ TheFile.samplesPerVector =
         Erase(RunPass(EmptyStats, WholeExtent, geoms, "fid", noDataCols).pop,
               intNoData)
    /\ TheFile.samplesPerClass =
         Erase(RunPass(EmptyStats, WholeExtent, geoms, "class", noDataCols).pop,
               intNoData)

C4_Witness ==
  /\ Finished
  /\ NumberOfSplits(tileSize) = Width * Height
  /\ \E k \in DOMAIN TheFile.samplesPerClass : TheFile.samplesPerClass[k] > 2

\* C5: the tiles of a raster accumulated in any order into two partial
\* maps, whatever tile goes to which, and the two merged key-wise in
\* either order, give the map of the single pass over all the tiles.
C5_MergeOfPartialsIsSinglePass ==
  pc = "merged" =>
    /\ merged = RunPass(EmptyStats, tileSize, geoms, mergeSel, noDataCols).pop
    /\ merged = MergeMaps(partial[2].pop, partial[1].pop)

C5_Witness ==
  /\ pc = "merged"
  /\ \E k \in DOMAIN partial[1].pop \cap DOMAIN partial[2].pop :
       /\ k # intNoData
       /\ merged[k] = partial[1].pop[k] + partial[2].pop[k]
  /\ DOMAIN partial[1].pop # DOMAIN partial[2].pop

\* the path ends in ".xml", in any letter case
EndsInDotXml(p) ==
  /\ Len(p) >= 4
  /\ p[Len(p) - 3] = "."
  /\ p[Len(p) - 2] \in {"x", "X"}
  /\ p[Len(p) - 1] \in {"m", "M"}
  /\ p[Len(p)] \in {"l", "L"}

\* C6: an output path that does not end in ".xml", whatever the case of
\* the letters, is a fatal error raised before the raster is opened and
\* before any pass; a path that ends in ".xml" in any case raises none.
C6_WrongExtensionIsFatalEarly ==
  /\ (~EndsInDotXml(out) /\ pc # "updateParameters") =>
        /\ pc = "fatal"
        /\ err = <<"wrong extension">>
        /\ ~rasterOpened
        /\ fidStats = EmptyStats /\ classStats = EmptyStats
        /\ written = NoFile
  /\ EndsInDotXml(out) => \A i \in 1..Len(err) : err[i] # "wrong extension"

C6_Witness ==
  /\ out = <<"s", ".", "j", "s">>
  /\ pc = "fatal"
  /\ err = <<"wrong extension">>
  /\ ~rasterOpened

\* C7: a pixel several geometries cover carries, in the ID raster and in
\* the class raster, the ID and the class of the last of them in input
\* order, and counts once, for that ID and that class only.
C7_LastWriterWins ==
  Finished =>
       /\ \A c \in Cells : InsideSomeGeometry(geoms, c) =>
            LET g == LastCovering(geoms, c)
            IN  /\ LabelAt(geoms, "fid", c) = BurnValue("fid", geoms[g], g)
                /\ LabelAt(geoms, "class", c) = geoms[g].cls
       /\ \A g \in 1..Len(geoms) :
            Count(TheFile.samplesPerVector, BurnValue("fid", geoms[g], g)) =
              Cardinality({c \in Cells : /\ InsideSomeGeometry(geoms, c)
                                         /\ LastCovering(geoms, c) = g})
       /\ \A k \in ClassCodes :
            Count(TheFile.samplesPerClass, k) =
              Cardinality({c \in Cells :
                             /\ InsideSomeGeometry(geoms, c)
                             /\ geoms[LastCovering(geoms, c)].cls = k})

C7_Witness ==
  /\ Finished
  /\ Len(geoms) = 2
  /\ geoms[1].cls # geoms[2].cls
  /\ \E c \in Cells : Covering(geoms, c) = {1, 2}
  /\ \E c \in Cells : Covering(geoms, c) = {1}

\* C8: in each pass the tiles cover the extent exactly once: no pixel is
\* visited twice, and when the pass has ended every pixel was visited once.
C8_TilesCoverExtentOnce ==
  /\ \A c \in Cells : fidStats.seen[c] <= 1 /\ classStats.seen[c] <= 1
  /\ pc \in {"classStats", "erase", "write", "done"} =>
       \A c \in Cells : fidStats.seen[c] = 1
  /\ pc \in {"erase", "write", "done"} =>
       \A c \in Cells : classStats.seen[c] = 1

C8_Witness ==
  /\ pc = "erase"
  /\ SplitsX(tileSize) > 1
  /\ SplitsY(tileSize) > 1

\* C9: a fatal error ends the run with that one error and no file written;
\* the file is written only after both passes and the removal of the
\* no-data entries; a missing class field is reported before any raster is
\* read or rasterized.
C9_NoOutputOnFatalError ==
  /\ Len(err) <= 1
  /\ err # <<>> => pc = "fatal"
  /\ pc = "fatal" => written = NoFile /\ Len(err) = 1
  /\ written # NoFile =>
       /\ Len(written) = 1
       /\ pc = "done"
       /\ fidStats.split = NumberOfSplits(tileSize)
       /\ classStats.split = NumberOfSplits(tileSize)
       /\ intNoData \notin DOMAIN fidMap \cup DOMAIN classMap
       /\ written[1].samplesPerVector = fidMap
       /\ written[1].samplesPerClass = classMap
  /\ err = <<"no field">> =>
       ~rasterOpened /\ fidStats = EmptyStats /\ classStats = EmptyStats

C9_Witness ==
  /\ pc = "fatal"
  /\ err = <<"io in classStats">>
  /\ rasterOpened
  /\ written = NoFile

\* the order of the positions of a run
Rank(p) ==
  CASE p = "updateParameters" -> 0
    [] p = "field" -> 1
    [] p = "inputs" -> 2
    [] p = "fidStats" -> 3
    [] p = "classStats" -> 4
    [] p = "erase" -> 5
    [] p = "write" -> 6
    [] OTHER -> 7

Grows(m, n) == \A k \in DOMAIN m : k \in DOMAIN n /\ n[k] >= m[k]

\* a run that goes on; a fatal error abandons the run and its filters
C10_Running ==
  /\ Grows(fidStats.pop, fidStats'.pop)
  /\ Grows(classStats.pop, classStats'.pop)
  /\ fidStats' # fidStats => pc = "fidStats"
  /\ classStats' # classStats => pc = "classStats"

C10_Step ==
  /\ Rank(pc') >= Rank(pc)
  /\ Rank(pc) < 3 => fidStats = EmptyStats
  /\ Rank(pc) < 4 => classStats = EmptyStats
  /\ Rank(pc) < 6 => fidMap = EmptyMap /\ classMap = EmptyMap
  /\ pc' # "fatal" => C10_Running
  /\ (pc = "erase" /\ pc' = "write") =>
       /\ intNoData \notin DOMAIN fidMap' \cup DOMAIN classMap'
       /\ \A k \in LabelsOf(geoms) \ {intNoData} :
            /\ Count(fidMap', k) = Count(fidStats.pop, k)
            /\ Count(classMap', k) = Count(classStats.pop, k)
  /\ Rank(pc) >= 6 =>
       /\ fidMap' = fidMap /\ classMap' = classMap
       /\ fidStats' = fidStats /\ classStats' = classStats

====
